---- MODULE Spec2Model ----
(***************************************************************************)
(* RawDataManager of justintime/cruncher/datamanager.py: construction,     *)
(* the hardware-address index, list_files and load_trigger_record with its *)
(* OrderedDict cache.  The container, frame and channel-map libraries and  *)
(* the dataframe library are modelled by what the manager observes of      *)
(* them.                                                                   *)
(***************************************************************************)
EXTENDS Integers, Sequences, FiniteSets, TLC

VARIABLES
    mgr,          \* "none" before construction, "ok" once __init__ returned
    data_path,    \* self.data_path
    ch_map_name,  \* self.ch_map_name
    frame_type,   \* selects self.get_hdr_info, self.frag_unpack
    offch_to_hw_map, \* self.offch_to_hw_map: offline channel -> hardware address
    cache,        \* self.cache: OrderedDict as a sequence, first item first
    unmapped,     \* hardware addresses the library channel map has no channel for
    disk,         \* the containers: (file_name, tr_num) -> trigger record
    dir_entries,  \* the data directory listing, in directory order
    ret,          \* the outcome of the last call
    prev,         \* history: the outcome of the call before the last
    accessed,     \* history: the cached keys, least recently returned first
    dropped       \* history: the keys the last call removed from the cache

vars == <<mgr, data_path, ch_map_name, frame_type, offch_to_hw_map, cache,
          unmapped, disk, dir_entries, ret, prev, accessed, dropped>>

----------------------------------------------------------------------------
(* Bounds of the model.                                                    *)

\* local channels per frame; the code uses range(256) (lines 104, 200, 207)
NChan == 2
\* capacity of the cache; the code's is 100 (line 58).  The cache law is the
\* same at every capacity, and at this one every order of requests is run.
max_cache_size == 3
\* fragments per trigger record
MaxFrags == 2
\* trigger records that load, beyond the cache capacity
ExtraKeys == 2
\* entries of the data directory
MaxDirEntries == 3
\* modification times 1..MaxMtime
MaxMtime == 3

----------------------------------------------------------------------------
(* Program constants.                                                      *)

\* The "no mapping" value 4294967295 of line 113, the largest value of the
\* channel type; here the largest integer of the model, above every channel.
Sentinel == 2147483647
crate_no == 4
NSlots == 4
FirstFibre == 1
LastFibre == 2

slots == 0 .. (NSlots - 1)
fibres == FirstFibre .. LastFibre
chans == 0 .. (NChan - 1)

match_exprs == << <<"*", ".hdf5">>, <<"*", ".hdf5", ".copied">> >>

FrameTypes == {"ProtoWIB", "WIB"}
LibraryMaps == {"VDColdbox", "ProtoDUNESP1", "PD2HD"}
MapIds == LibraryMaps \cup {"VST"}

kTPC == "kTPC"
SystemTypes == {kTPC, "kPDS"}

----------------------------------------------------------------------------
(* Channel maps.                                                           *)

\* VSTChannelMap.get_offline_channel_from_crate_slot_fiber_chan, with the
\* number of channels per fibre in place of 256.
VSTOfflineChannel(crate, slot, fiber, ch) == NChan * fiber + ch

\* The maps detchannelmaps.make_map returns: one offline channel per hardware
\* address of the detector, the sentinel for every other address.  The
\* numbering runs against the channel number within a fibre.
LibOfflineChannel(unm, crate, slot, fiber, ch) ==
    IF /\ crate = crate_no
       /\ slot \in slots
       /\ fiber \in fibres
       /\ ch \in chans
       /\ <<crate, slot, fiber, ch>> \notin unm
    THEN (slot * (LastFibre - FirstFibre + 1) + (fiber - FirstFibre)) * NChan
         + (NChan - 1 - ch)
    ELSE Sentinel

\* self.ch_map.get_offline_channel_from_crate_slot_fiber_chan
get_offline_channel(map_id, unm, crate, slot, fiber, ch) ==
    IF map_id = "VST"
    THEN VSTOfflineChannel(crate, slot, fiber, ch)
    ELSE LibOfflineChannel(unm, crate, slot, fiber, ch)

\* RawDataManager.make_channel_map: the error it raises, "ok" otherwise
make_channel_map(map_id) ==
    IF map_id \in MapIds THEN "ok" ELSE "RuntimeError"

\* The hardware addresses _init_o2h_map enumerates, in loop order
\* (slot, then fibre, then channel).
EnumAddrs == { <<crate_no, s, f, c>> : s \in slots, f \in fibres, c \in chans }

AddrRank(a) == (a[2] * (LastFibre + 1) + a[3]) * NChan + a[4]

\* _init_o2h_map without the test of line 113
init_o2h_map_keep_sentinel(map_id, unm) ==
    LET off(a) == get_offline_channel(map_id, unm, a[1], a[2], a[3], a[4])
        enum == IF map_id = "VDColdbox" THEN EnumAddrs ELSE {}
        keys == { off(a) : a \in enum }
    IN  [ k \in keys |->
            CHOOSE a \in enum :
               /\ off(a) = k
               /\ \A b \in enum : off(b) = k => AddrRank(b) <= AddrRank(a) ]

\* RawDataManager._init_o2h_map: later addresses overwrite earlier ones
init_o2h_map(map_id, unm) ==
    LET off(a) == get_offline_channel(map_id, unm, a[1], a[2], a[3], a[4])
        enum == IF map_id = "VDColdbox" THEN EnumAddrs ELSE {}
        kept == { a \in enum : off(a) # Sentinel }
        keys == { off(a) : a \in kept }
    IN  [ k \in keys |->
            CHOOSE a \in kept :
               /\ off(a) = k
               /\ \A b \in kept : off(b) = k => AddrRank(b) <= AddrRank(a) ]

----------------------------------------------------------------------------
(* Outcome of a call.                                                      *)

Ret(op, args, status, val, hit, opened) ==
    [op |-> op, args |-> args, status |-> status, val |-> val,
     hit |-> hit, opened |-> opened]

NoRet == Ret("none", << >>, "none", << >>, FALSE, FALSE)

\* the history variables after a call
Track ==
    /\ prev' = ret
    /\ accessed' =
          LET seen == IF ret'.op = "load" /\ ret'.status = "ok"
                      THEN Append(SelectSeq(accessed, LAMBDA u : u # ret'.args),
                                  ret'.args)
                      ELSE accessed
          IN  SelectSeq(seen, LAMBDA u : \E i \in 1 .. Len(cache') : cache'[i].uid = u)
    /\ dropped' = { cache[i].uid : i \in 1 .. Len(cache) }
                     \ { cache'[i].uid : i \in 1 .. Len(cache') }

NoHistory == prev = NoRet /\ accessed = << >> /\ dropped = {}

----------------------------------------------------------------------------
(* Construction.                                                           *)

ExistingDirs == {"/data"}
DataPaths == {"/data", "/missing"}
FrameTypeArgs == FrameTypes \cup {"TDE"}
MapIdArgs == MapIds \cup {"HDColdbox"}

\* __init__ without the check of the frame type
init_status_any_frame(dp, ft, id) ==
    IF dp \notin ExistingDirs THEN "ValueError"
    ELSE make_channel_map(id)

\* The error RawDataManager.__init__ ends in, "ok" when it returns
init_status(dp, ft, id) ==
    IF dp \notin ExistingDirs THEN "ValueError"
    ELSE IF ft \notin FrameTypes THEN "ValueError"
    ELSE make_channel_map(id)

\* RawDataManager.__init__
Construct(dp, ft, id) ==
    /\ mgr = "none"
    /\ LET st == init_status(dp, ft, id)
       IN  /\ ret' = Ret("init", <<dp, ft, id>>, st, << >>, FALSE, FALSE)
           /\ IF st = "ok"
              THEN /\ mgr' = "ok"
                   /\ data_path' = dp
                   /\ ch_map_name' = id
                   /\ frame_type' = ft
                   /\ offch_to_hw_map' = init_o2h_map(id, unmapped)
                   /\ cache' = << >>
              ELSE UNCHANGED <<mgr, data_path, ch_map_name, frame_type,
                               offch_to_hw_map, cache>>
    /\ UNCHANGED <<unmapped, disk, dir_entries>>

----------------------------------------------------------------------------
(* The OrderedDict holding the cache: a sequence of [uid, entry], the      *)
(* first item at index 1.                                                  *)

Contains(c, uid) == \E i \in 1 .. Len(c) : c[i].uid = uid

IndexOf(c, uid) == CHOOSE i \in 1 .. Len(c) : c[i].uid = uid

GetItem(c, uid) == c[IndexOf(c, uid)].entry

Without(c, i) == SubSeq(c, 1, i - 1) \o SubSeq(c, i + 1, Len(c))

\* OrderedDict.move_to_end(key, last)
move_to_end(c, uid, last) ==
    LET i == IndexOf(c, uid)
    IN  IF last THEN Without(c, i) \o << c[i] >>
                ELSE << c[i] >> \o Without(c, i)

\* OrderedDict.popitem(last): the dictionary left
popitem(c, last) ==
    IF last THEN SubSeq(c, 1, Len(c) - 1) ELSE Tail(c)

\* OrderedDict.__setitem__: a new key goes to the end
setitem(c, uid, entry) ==
    IF Contains(c, uid)
    THEN [c EXCEPT ![IndexOf(c, uid)] = [uid |-> uid, entry |-> entry]]
    ELSE Append(c, [uid |-> uid, entry |-> entry])

Keys(c) == { c[i].uid : i \in 1 .. Len(c) }

----------------------------------------------------------------------------
(* Fragments and their decoding.                                           *)
(* A trigger record is [run_number, trigger_number, trigger_timestamp,     *)
(* frags]; a fragment is [system_type, region_id, element_id, size, det,   *)
(* crate, slot, link, ts0, data]: the geometry identifier it is stored     *)
(* under, its size in bytes, the fields of its first frame's header, the   *)
(* timestamp of its first frame and the identity of its ADC payload.       *)

\* daqdataformats.FragmentHeader.sizeof(), detdataformats.wib.WIBFrame.sizeof()
\* and the frame size of the wib2 unpacker, in bytes
FragmentHeaderSize == 72
WIBFrameSize == 464
WIB2FrameSize == 472

\* line 192: the frame count load_trigger_record computes
n_frames(frag) == (frag.size - FragmentHeaderSize) \div WIBFrameSize

\* the frame size of the unpacker of frametype_map[frame_type]
UnpackFrameSize(ft) == IF ft = "ProtoWIB" THEN WIBFrameSize ELSE WIB2FrameSize

\* the number of frames frag_unpack.np_array_timestamp / np_array_adc return
unpacked_frames(ft, frag) ==
    (frag.size - FragmentHeaderSize) \div UnpackFrameSize(ft)

\* the address taken from the geometry identifier the fragment is stored
\* under: region for the crate, element for the link
get_hdr_info_from_geoid(ft, frag) ==
    <<0, frag.region_id, frag.slot, frag.element_id>>

\* get_protowib_header_info / get_wib_header_info
get_hdr_info(ft, frag) ==
    IF ft = "ProtoWIB"
    THEN <<0, frag.crate, frag.slot, frag.link>>
    ELSE <<frag.det, frag.crate, frag.slot, frag.link>>

\* line 200: off_chans, index c + 1 for local channel c
off_chans(map_id, unm, hdr) ==
    [ i \in 1 .. NChan |->
        get_offline_channel(map_id, unm, hdr[2], hdr[3], hdr[4], i - 1) ]

\* lines 202-204: the timestamps relative to the trigger timestamp
frag_index(ft, frag, tr_ts) ==
    { frag.ts0 + i - tr_ts : i \in 0 .. (unpacked_frames(ft, frag) - 1) }

\* the ascending sequence of a finite set of integers
RECURSIVE AscSeq(_)
AscSeq(S) ==
    IF S = {} THEN << >>
    ELSE LET m == CHOOSE x \in S : \A y \in S : x <= y
         IN  << m >> \o AscSeq(S \ {m})

\* lines 207-208: the table of one fragment.  OrderedDict keeps one item per
\* key, at the place of the key's first occurrence with the value of its last.
frag_df(ft, map_id, unm, frag, tr_ts) ==
    LET off == off_chans(map_id, unm, get_hdr_info(ft, frag))
        first == { i \in 1 .. NChan : \A j \in 1 .. (i - 1) : off[j] # off[i] }
        last(i) == CHOOSE j \in 1 .. NChan :
                      /\ off[j] = off[i]
                      /\ \A k \in 1 .. NChan : off[k] = off[i] => k <= j
        order == AscSeq(first)
    IN  [ cols  |-> [ n \in 1 .. Len(order) |->
                        [ label |-> off[order[n]],
                          data  |-> frag.data,
                          chan  |-> last(order[n]) - 1 ] ],
          index |-> frag_index(ft, frag, tr_ts) ]

\* the loop without the check of the system type
IsDecoded_any_system(frag) == n_frames(frag) # 0

\* lines 188-195: the fragments the loop decodes
IsDecoded(frag) == frag.system_type = kTPC /\ n_frames(frag) # 0

\* lines 174-211: dfs
RECURSIVE frag_dfs(_, _, _, _, _)
frag_dfs(ft, map_id, unm, frags, tr_ts) ==
    IF frags = << >> THEN << >>
    ELSE (IF IsDecoded(Head(frags))
          THEN << frag_df(ft, map_id, unm, Head(frags), tr_ts) >>
          ELSE << >>)
         \o frag_dfs(ft, map_id, unm, Tail(frags), tr_ts)

RECURSIVE ConcatCols(_)
ConcatCols(dfs) ==
    IF dfs = << >> THEN << >> ELSE Head(dfs).cols \o ConcatCols(Tail(dfs))

Failed(kind) == [status |-> kind, cols |-> << >>, index |-> {}]

\* line 213: pd.concat(dfs, axis=1), which raises ValueError on an empty list
concat(dfs) ==
    IF dfs = << >>
    THEN Failed("ValueError")
    ELSE [ status |-> "ok",
           cols   |-> ConcatCols(dfs),
           index  |-> UNION { dfs[i].index : i \in 1 .. Len(dfs) } ]

Labels(cols) == [ i \in 1 .. Len(cols) |-> cols[i].label ]

HasDuplicates(seq) ==
    \E i, j \in 1 .. Len(seq) : i < j /\ seq[i] = seq[j]

\* sorted(tr_df.columns)
sorted(seq) == SortSeq(seq, LAMBDA a, b : a < b)

\* line 215: tr_df.reindex(sorted(tr_df.columns), axis=1).  The columns are
\* left as they are when they equal the new ones; otherwise a column is looked
\* up by its label, which raises ValueError when a label occurs twice.
reindex_columns(df) ==
    LET new == sorted(Labels(df.cols))
    IN  IF new = Labels(df.cols) THEN df
        ELSE IF HasDuplicates(Labels(df.cols)) THEN Failed("ValueError")
        ELSE [ df EXCEPT !.cols =
                 [ i \in 1 .. Len(new) |->
                     df.cols[CHOOSE j \in 1 .. Len(df.cols) :
                                df.cols[j].label = new[i]] ] ]

\* lines 165-169: tr_info
tr_info(rec) ==
    [ run_number        |-> rec.run_number,
      trigger_number    |-> rec.trigger_number,
      trigger_timestamp |-> rec.trigger_timestamp ]

\* lines 161-215 on a record of the container: the outcome, with the table
build_table(ft, map_id, unm, rec) ==
    LET dfs == frag_dfs(ft, map_id, unm, rec.frags, rec.trigger_timestamp)
        cat == concat(dfs)
    IN  IF cat.status # "ok" THEN cat ELSE reindex_columns(cat)

\* the (tr_info, tr_df) pair a successful call returns and caches
Entry(rec, df) ==
    [ info |-> tr_info(rec), cols |-> df.cols, index |-> df.index ]

----------------------------------------------------------------------------
(* load_trigger_record.                                                    *)

\* lines 144-145: the cache after a hit
cache_hit(c, uid) == move_to_end(c, uid, FALSE)

\* the insertion without the eviction
cache_insert_no_evict(c, uid, entry) == setitem(c, uid, entry)

\* the insertion evicting the newest item
cache_insert_pop_last(c, uid, entry) ==
    LET c1 == setitem(c, uid, entry)
    IN  IF Len(c1) > max_cache_size THEN popitem(c1, TRUE) ELSE c1

\* lines 218-220: the cache after the insertion
cache_insert(c, uid, entry) ==
    LET c1 == setitem(c, uid, entry)
    IN  IF Len(c1) > max_cache_size THEN popitem(c1, FALSE) ELSE c1

\* load_trigger_record storing the entry at line 169, before the loop
LoadTriggerRecord_cache_first(file_name, tr_num) ==
    LET uid == <<file_name, tr_num>>
    IN  /\ mgr = "ok"
        /\ IF Contains(cache, uid)
           THEN /\ ret' = Ret("load", uid, "ok", GetItem(cache, uid), TRUE, FALSE)
                /\ cache' = cache_hit(cache, uid)
           ELSE IF uid \notin DOMAIN disk
           THEN /\ ret' = Ret("load", uid, "LibraryError", << >>, FALSE, TRUE)
                /\ cache' = cache
           ELSE LET df == build_table(frame_type, ch_map_name, unmapped, disk[uid])
                IN  /\ ret' = Ret("load", uid, df.status,
                                  IF df.status = "ok" THEN Entry(disk[uid], df)
                                                      ELSE << >>,
                                  FALSE, TRUE)
                    /\ cache' = cache_insert(cache, uid, Entry(disk[uid], df))
        /\ UNCHANGED <<mgr, data_path, ch_map_name, frame_type, offch_to_hw_map,
                       unmapped, disk, dir_entries>>

\* RawDataManager.load_trigger_record
LoadTriggerRecord(file_name, tr_num) ==
    LET uid == <<file_name, tr_num>>
    IN  /\ mgr = "ok"
        /\ IF Contains(cache, uid)
           THEN /\ ret' = Ret("load", uid, "ok", GetItem(cache, uid), TRUE, FALSE)
                /\ cache' = cache_hit(cache, uid)
           ELSE IF uid \notin DOMAIN disk
           THEN \* HDF5RawDataFile / get_trh raise: no such file or record
                /\ ret' = Ret("load", uid, "LibraryError", << >>, FALSE, TRUE)
                /\ cache' = cache
           ELSE LET df == build_table(frame_type, ch_map_name, unmapped, disk[uid])
                IN  IF df.status # "ok"
                    THEN /\ ret' = Ret("load", uid, df.status, << >>, FALSE, TRUE)
                         /\ cache' = cache
                    ELSE /\ ret' = Ret("load", uid, "ok", Entry(disk[uid], df),
                                       FALSE, TRUE)
                         /\ cache' = cache_insert(cache, uid, Entry(disk[uid], df))
        /\ UNCHANGED <<mgr, data_path, ch_map_name, frame_type, offch_to_hw_map,
                       unmapped, disk, dir_entries>>

----------------------------------------------------------------------------
(* list_files.  A file name is the sequence of its parts ("run1", ".hdf5"); *)
(* a pattern is "*" followed by the parts the name must end with.           *)

\* fnmatch: "*" matches any prefix, the empty one included
fnmatch(name, pat) ==
    LET suffix == Tail(pat)
    IN  /\ Len(name) >= Len(suffix)
        /\ SubSeq(name, Len(name) - Len(suffix) + 1, Len(name)) = suffix

RECURSIVE fnmatch_filter(_, _)
fnmatch_filter(names, pat) ==
    IF names = << >> THEN << >>
    ELSE (IF fnmatch(Head(names), pat) THEN << Head(names) >> ELSE << >>)
         \o fnmatch_filter(Tail(names), pat)

\* next(walk(data_path))[2]: the names of the directory's files, not of its
\* subdirectories
RECURSIVE walk_files(_)
walk_files(entries) ==
    IF entries = << >> THEN << >>
    ELSE (IF Head(entries).isdir THEN << >> ELSE << Head(entries).name >>)
         \o walk_files(Tail(entries))

\* os.path.getmtime(os.path.join(data_path, f))
getmtime(entries, f) ==
    entries[CHOOSE i \in 1 .. Len(entries) : entries[i].name = f].mtime

\* lines 126-128: files
RECURSIVE matched_files(_, _)
matched_files(entries, pats) ==
    IF pats = << >> THEN << >>
    ELSE fnmatch_filter(walk_files(entries), Head(pats))
         \o matched_files(entries, Tail(pats))

\* the files in the order found, not sorted
unsorted(files, entries) == files

\* sorted(files, reverse=True, key=...): stable, equal keys keep their order
RECURSIVE sorted_reverse(_, _)
sorted_reverse(files, entries) ==
    IF files = << >> THEN << >>
    ELSE LET i == CHOOSE k \in 1 .. Len(files) :
                    /\ \A j \in 1 .. Len(files) :
                          getmtime(entries, files[j]) <= getmtime(entries, files[k])
                    /\ \A j \in 1 .. (k - 1) :
                          getmtime(entries, files[j]) < getmtime(entries, files[k])
         IN  << files[i] >> \o sorted_reverse(Without(files, i), entries)

list_files(entries) ==
    sorted_reverse(matched_files(entries, match_exprs), entries)

\* RawDataManager.list_files
ListFiles ==
    /\ mgr = "ok"
    /\ ret' = Ret("list_files", << >>, "ok", list_files(dir_entries), FALSE, FALSE)
    /\ UNCHANGED <<mgr, data_path, ch_map_name, frame_type, offch_to_hw_map,
                   cache, unmapped, disk, dir_entries>>

----------------------------------------------------------------------------
(* Inputs.                                                                 *)

File1 == "run1.hdf5"
NoDisk == [ k \in {} |-> << >> ]

\* (crate, slot, link) triples a frame header may carry: two links of the
\* detector and one that is not of it
HdrLinks == { <<crate_no, 0, FirstFibre>>, <<crate_no, 1, LastFibre>>, <<0, 0, 0>> }

\* payloads of no frame, half a frame, one frame, one frame and a half
PayloadSizes == { 0, WIBFrameSize \div 2, WIBFrameSize,
                  WIBFrameSize + WIBFrameSize \div 2 }

FragChoices == [ system_type : SystemTypes, payload : PayloadSizes, hdr : HdrLinks ]

\* the fragment at position pos of a record: its first frame comes one tick
\* before the trigger timestamp (1000) at position 1, one tick later at each
\* further position
MkFrag(ch, pos, region) ==
    [ system_type |-> ch.system_type,
      region_id   |-> region,
      element_id  |-> pos,
      size        |-> FragmentHeaderSize + ch.payload,
      det         |-> 3,
      crate       |-> ch.hdr[1],
      slot        |-> ch.hdr[2],
      link        |-> ch.hdr[3],
      ts0         |-> 998 + pos,
      data        |-> pos ]

MkRecord(tr_num, choices, region) ==
    [ run_number        |-> 7,
      trigger_number    |-> tr_num,
      trigger_timestamp |-> 1000,
      frags |-> [ i \in 1 .. Len(choices) |-> MkFrag(choices[i], i, region) ] ]

\* the addresses a library map may lack: those of slot 0, first fibre
UnmappedChoices == SUBSET { <<crate_no, 0, FirstFibre, c>> : c \in chans }

NoIndex == init_o2h_map("VST", {})

\* the fields of a manager __init__ has returned
Constructed(dp, ft, id, unm) ==
    /\ init_status(dp, ft, id) = "ok"
    /\ mgr = "ok"
    /\ data_path = dp
    /\ ch_map_name = id
    /\ frame_type = ft
    /\ unmapped = unm
    /\ offch_to_hw_map = init_o2h_map(id, unm)
    /\ cache = << >>

----------------------------------------------------------------------------
(* Construction from every combination of arguments.                       *)

InitNone ==
    /\ mgr = "none"
    /\ data_path = ""
    /\ ch_map_name = ""
    /\ frame_type = ""
    /\ offch_to_hw_map = NoIndex
    /\ cache = << >>
    /\ unmapped \in UnmappedChoices
    /\ disk = NoDisk
    /\ dir_entries = << >>
    /\ ret = NoRet
    /\ NoHistory

NextInit ==
    \E dp \in DataPaths, ft \in FrameTypeArgs, id \in MapIdArgs :
        Construct(dp, ft, id) /\ Track

SpecInit == InitNone /\ [][NextInit]_vars

----------------------------------------------------------------------------
(* One trigger record, of every shape, loaded by every manager.            *)

InitLoad ==
    /\ \E ft \in FrameTypes, id \in {"VST", "VDColdbox"}, unm \in UnmappedChoices :
          /\ id = "VST" => unm = {}
          /\ Constructed("/data", ft, id, unm)
    /\ \E n \in 0 .. MaxFrags :
          \E choices \in [ 1 .. n -> FragChoices ] :
              disk = [ k \in { <<File1, 1>> } |-> MkRecord(1, choices, 0) ]
    /\ dir_entries = << >>
    /\ ret = NoRet
    /\ NoHistory

NextLoad == LoadTriggerRecord(File1, 1) /\ Track

SpecLoad == InitLoad /\ [][NextLoad]_vars

----------------------------------------------------------------------------
(* A cache filled past its capacity by every sequence of requests.         *)
(* Trigger number 0 is in no container, 2 is a record without a TPC        *)
(* fragment, the others up to LastTr are records that load.                *)

LastTr == max_cache_size + ExtraKeys + 1

CacheRecord(n) ==
    IF n = 2
    THEN MkRecord(n, << [system_type |-> "kPDS", payload |-> WIBFrameSize,
                         hdr |-> <<0, 0, 0>>] >>, 0)
    ELSE MkRecord(n, << [system_type |-> kTPC, payload |-> WIBFrameSize,
                         hdr |-> <<crate_no, 0, FirstFibre + (n % 2)>>] >>, 0)

CacheDisk == [ k \in { <<File1, n>> : n \in 1 .. LastTr } |-> CacheRecord(k[2]) ]

InitCache ==
    /\ Constructed("/data", "ProtoWIB", "VST", {})
    /\ disk = CacheDisk
    /\ dir_entries = << >>
    /\ ret = NoRet
    /\ NoHistory

NextCache ==
    \E n \in 0 .. LastTr : LoadTriggerRecord(File1, n) /\ Track

SpecCache == InitCache /\ [][NextCache]_vars

----------------------------------------------------------------------------
(* A data directory of every content.                                      *)

FileNames ==
    { <<"run1", ".hdf5">>, <<"run2", ".hdf5", ".copied">>, <<".hdf5">>,
      <<"run3", ".hdf5", ".tmp">>, <<"run4", ".copied">>, <<"old", ".hdf5">> }

\* the names that are subdirectories
SubDirs == { <<"old", ".hdf5">> }

\* a listing names each entry once
DistinctNames(k) ==
    { ns \in [ 1 .. k -> FileNames ] : \A i, j \in 1 .. k : i # j => ns[i] # ns[j] }

\* the listing of names ns with modification times ms
Listing(ns, ms) ==
    [ i \in 1 .. Len(ns) |->
        [ name |-> ns[i], isdir |-> ns[i] \in SubDirs, mtime |-> ms[i] ] ]

InitFiles ==
    /\ Constructed("/data", "ProtoWIB", "VST", {})
    /\ disk = NoDisk
    /\ \E k \in 0 .. MaxDirEntries :
          \E ns \in DistinctNames(k), ms \in [ 1 .. k -> 1 .. MaxMtime ] :
              dir_entries = Listing(ns, ms)
    /\ ret = NoRet
    /\ NoHistory

NextFiles == ListFiles /\ Track

SpecFiles == InitFiles /\ [][NextFiles]_vars

----------------------------------------------------------------------------
(* Claims on the cache, under SpecCache.                                   *)

IsLoad(r) == r.op = "load"
IsHit(r) == r.op = "load" /\ r.status = "ok" /\ r.hit
IsInsert(r) == r.op = "load" /\ r.status = "ok" /\ ~r.hit

\* C1: in a full cache, a hit on key K followed by the load of a key not in
\* the cache leaves K in the cache, and the entry evicted is the one least
\* recently returned.
C1_HitProtectsFromEviction ==
    [][ ( /\ IsHit(ret)
          /\ Len(cache) = max_cache_size
          /\ IsInsert(ret')
          /\ ~Contains(cache, ret'.args) )
        => ( /\ Contains(cache', ret.args)
             /\ Keys(cache) \ Keys(cache') = { Head(accessed) } ) ]_vars

\* C2: whenever a call has returned, the cache holds at most max_cache_size
\* entries; a call removes at most one entry, and only a call that inserted
\* into a full cache removes one.
C2_CacheBounded ==
    /\ Len(cache) <= max_cache_size
    /\ Cardinality(Keys(cache)) = Len(cache)
    /\ Cardinality(dropped) <= 1
    /\ dropped # {} => (IsInsert(ret) /\ Len(cache) = max_cache_size)
    /\ ~IsInsert(ret) => dropped = {}

\* C2 witness: an insertion into a full cache has evicted an entry, after a
\* call that failed.
C2_Witness ==
    /\ IsInsert(ret)
    /\ dropped # {}
    /\ Len(cache) = max_cache_size
    /\ prev.op = "load" /\ prev.status # "ok"

\* C3: a call that follows a successful call with the same (file, id) returns
\* the same info and table, from the cache, without opening the container.
C3_Idempotent ==
    (IsLoad(prev) /\ prev.status = "ok" /\ IsLoad(ret) /\ ret.args = prev.args)
    => ( /\ ret.status = "ok"
         /\ ret.val = prev.val
         /\ ret.hit
         /\ ~ret.opened )

\* C3 witness: the first call decoded the record and evicted an entry of the
\* full cache, the second call with the same key was served from the cache.
C3_Witness ==
    /\ IsInsert(prev)
    /\ prev.opened
    /\ IsHit(ret)
    /\ ret.args = prev.args
    /\ ret.val = Entry(disk[ret.args],
                       build_table(frame_type, ch_map_name, unmapped, disk[ret.args]))
    /\ Len(cache) = max_cache_size

----------------------------------------------------------------------------
(* Claims on the decoding of a record, under SpecLoad.                     *)

\* the record the last call asked for
Asked == disk[ret.args]

OnDisk(r) == IsLoad(r) /\ r.args \in DOMAIN disk

\* the tables the manager has delivered or holds
Tables ==
    (IF IsLoad(ret) /\ ret.status = "ok" THEN { ret.val } ELSE {})
      \cup { cache[i].entry : i \in 1 .. Len(cache) }

OfHandledSystem(frag) == frag.system_type = kTPC

HoldsFrames(frag) == frag.size - FragmentHeaderSize >= WIBFrameSize

WithoutOtherSystems(rec) ==
    [ rec EXCEPT !.frags = SelectSeq(rec.frags, OfHandledSystem) ]

\* C4: a record without a fragment of the handled subsystem that holds a
\* frame loads without an error, to a table of no column.
C4_EmptyRecordEmptyTable ==
    ( /\ OnDisk(ret)
      /\ \A i \in 1 .. Len(Asked.frags) :
            ~(OfHandledSystem(Asked.frags[i]) /\ HoldsFrames(Asked.frags[i])) )
    => ( /\ ret.status = "ok"
         /\ ret.val.cols = << >>
         /\ ret.val.info = tr_info(Asked) )

\* C5: a fragment whose payload is no whole number of frames of the
\* configured format gives no column of the returned table.
C5_NonMultipleSkipped ==
    (OnDisk(ret) /\ ret.status = "ok")
    => \A i \in 1 .. Len(ret.val.cols) :
          LET frag == Asked.frags[ret.val.cols[i].data]
          IN  (frag.size - FragmentHeaderSize) % UnpackFrameSize(frame_type) = 0

\* C8: the outcome of a load is the outcome for the same record without its
\* fragments of other subsystems: the same table, or an error in both cases.
C8_OtherSystemsIgnored ==
    OnDisk(ret)
    => LET rec == WithoutOtherSystems(Asked)
           df  == build_table(frame_type, ch_map_name, unmapped, rec)
       IN  /\ ret.status = df.status
           /\ ret.status = "ok" => ret.val = Entry(rec, df)

\* C8 witness: a record with a fragment of another subsystem that holds a
\* frame, next to a TPC fragment, has loaded.
C8_Witness ==
    /\ OnDisk(ret)
    /\ ret.status = "ok"
    /\ ret.opened
    /\ ret.val.cols # << >>
    /\ \E i \in 1 .. Len(Asked.frags) :
          ~OfHandledSystem(Asked.frags[i]) /\ HoldsFrames(Asked.frags[i])
    /\ Len(WithoutOtherSystems(Asked).frags) < Len(Asked.frags)

\* C9: the columns of every table returned or cached are in strictly
\* ascending order of offline channel.
C9_ColumnsStrictlyAscending ==
    \A t \in Tables :
        \A i, j \in 1 .. Len(t.cols) : i < j => t.cols[i].label < t.cols[j].label

\* C10: the sentinel is no column of a table returned or cached and no key
\* of the hardware-address index.
C10_SentinelFiltered ==
    /\ Sentinel \notin DOMAIN offch_to_hw_map
    /\ \A t \in Tables : \A i \in 1 .. Len(t.cols) : t.cols[i].label # Sentinel

----------------------------------------------------------------------------
(* Claims on construction, under SpecInit.                                 *)

IsInit(r) == r.op = "init"

----------------------------------------------------------------------------
(* Claims on list_files, under SpecFiles.                                  *)

LastPart(name) == name[Len(name)]

\* a name ending in ".hdf5" or in ".hdf5.copied"
IsRunFile(name) ==
    \/ LastPart(name) = ".hdf5"
    \/ Len(name) >= 2 /\ LastPart(name) = ".copied" /\ name[Len(name) - 1] = ".hdf5"

EntryOf(name) == CHOOSE i \in 1 .. Len(dir_entries) : dir_entries[i].name = name

\* C7: list_files returns the names of the directory's files that match a
\* pattern, each once, a strictly later modification time first.
C7_ListFiles ==
    ret.op = "list_files"
    => LET out == ret.val
       IN  /\ { out[i] : i \in 1 .. Len(out) }
                = { dir_entries[i].name : i \in
                      { k \in 1 .. Len(dir_entries) :
                          /\ ~dir_entries[k].isdir
                          /\ IsRunFile(dir_entries[k].name) } }
           /\ \A i, j \in 1 .. Len(out) : i # j => out[i] # out[j]
           /\ \A i, j \in 1 .. Len(out) :
                 dir_entries[EntryOf(out[i])].mtime > dir_entries[EntryOf(out[j])].mtime
                    => i < j

\* C7 witness: of three directory entries the two run files, one of each
\* pattern, are listed, the newer first against the directory's order; the
\* third entry is not listed.
C7_Witness ==
    /\ ret.op = "list_files"
    /\ Len(ret.val) = 2
    /\ Len(dir_entries) = 3
    /\ \E i, j \in 1 .. 2 :
          /\ LastPart(ret.val[i]) = ".hdf5"
          /\ LastPart(ret.val[j]) = ".copied"
    /\ ret.val # SelectSeq([ i \in 1 .. 3 |-> dir_entries[i].name ],
                           LAMBDA n : n \in { ret.val[1], ret.val[2] })

----------------------------------------------------------------------------
(* Claims on the index from offline channel to hardware address.          *)

offline_channel(a) ==
    get_offline_channel(ch_map_name, unmapped, a[1], a[2], a[3], a[4])

\* C11: for the VDColdbox map, every enumerated hardware address whose
\* offline channel is not the sentinel is found in the index under that
\* offline channel, the index holds nothing else and no sentinel; for every
\* other map the index is empty.
C11_InverseIndex ==
    mgr = "ok"
    => IF ch_map_name = "VDColdbox"
       THEN /\ \A a \in EnumAddrs :
                  offline_channel(a) # Sentinel
                  => /\ offline_channel(a) \in DOMAIN offch_to_hw_map
                     /\ offch_to_hw_map[offline_channel(a)] = a
            /\ Sentinel \notin DOMAIN offch_to_hw_map
            /\ \A k \in DOMAIN offch_to_hw_map :
                  /\ offch_to_hw_map[k] \in EnumAddrs
                  /\ offline_channel(offch_to_hw_map[k]) = k
       ELSE DOMAIN offch_to_hw_map = {}

\* C11 witness: a VDColdbox manager is constructed over a map that sends
\* some enumerated addresses to the sentinel and the others to channels.
C11_Witness ==
    /\ mgr = "ok"
    /\ IsInit(ret)
    /\ ret.status = "ok"
    /\ ch_map_name = "VDColdbox"
    /\ \E a \in EnumAddrs : offline_channel(a) = Sentinel
    /\ \E a \in EnumAddrs : offline_channel(a) \in DOMAIN offch_to_hw_map
    /\ Cardinality(DOMAIN offch_to_hw_map) < Cardinality(EnumAddrs)

----------------------------------------------------------------------------
(* Claims on the source of the column labels.                              *)

\* the record with other values in the geometry identifiers of its fragments
WithGeoIds(rec, region, shift) ==
    [ rec EXCEPT !.frags =
        [ i \in 1 .. Len(rec.frags) |->
            [ rec.frags[i] EXCEPT !.region_id = region,
                                  !.element_id = @ + shift ] ] ]

\* C12: every column of a loaded table is labelled by the channel map applied
\* to the crate, slot and link of the frame header of its fragment and to its
\* local channel, and the outcome of the load is the outcome for the same
\* record stored under other region and element values.
C12_LabelsFromFrameHeader ==
    OnDisk(ret)
    => /\ ret.status = "ok"
          => \A i \in 1 .. Len(ret.val.cols) :
                LET col  == ret.val.cols[i]
                    frag == Asked.frags[col.data]
                IN  col.label = get_offline_channel(ch_map_name, unmapped,
                                   frag.crate, frag.slot, frag.link, col.chan)
       /\ \A region \in {0, 1, crate_no}, shift \in {0, 1} :
             LET rec == WithGeoIds(Asked, region, shift)
                 df  == build_table(frame_type, ch_map_name, unmapped, rec)
             IN  /\ ret.status = df.status
                 /\ ret.status = "ok" => ret.val = Entry(rec, df)

\* C12 witness: a record of two decoded fragments has loaded, one of them
\* with a frame header whose crate and link are not the region and element
\* it is stored under.
C12_Witness ==
    /\ OnDisk(ret)
    /\ ret.status = "ok"
    /\ ret.opened
    /\ ret.val.cols # << >>
    /\ Len(SelectSeq(Asked.frags, IsDecoded)) = MaxFrags
    /\ \E i \in 1 .. Len(Asked.frags) :
          /\ IsDecoded(Asked.frags[i])
          /\ Asked.frags[i].crate # Asked.frags[i].region_id
          /\ Asked.frags[i].link # Asked.frags[i].element_id
          /\ \E j \in 1 .. Len(ret.val.cols) : ret.val.cols[j].data = i

----------------------------------------------------------------------------
(* Claims on the cache under failing loads.                                *)

\* C13: a load that ends in an error leaves the cache as it was, items and
\* order, and a key enters the cache only in a load that returns its table,
\* with that table as its entry.
C13_FailedLoadKeepsCache ==
    [][ /\ (IsLoad(ret') /\ ret'.status # "ok") => cache' = cache
        /\ \A u \in Keys(cache') \ Keys(cache) :
              /\ IsLoad(ret')
              /\ ret'.status = "ok"
              /\ ret'.args = u
              /\ GetItem(cache', u) = ret'.val ]_vars

\* C13 witness: with the cache full, a load of a record that is not cached
\* has opened the file and failed while its table was assembled, after a
\* load that succeeded.
C13_Witness ==
    /\ IsLoad(ret)
    /\ ret.opened
    /\ ret.status = "ValueError"
    /\ ret.args \in DOMAIN disk
    /\ ret.args \notin Keys(cache)
    /\ Len(cache) = max_cache_size
    /\ IsLoad(prev)
    /\ prev.status = "ok"

====
